---------------------------- MODULE Spec2Model ----------------------------
(***************************************************************************)
(* A model of the migration engine of edgedb-cli:                          *)
(*   - linearize_db_migrations (src/src/migrations/db_migration.rs)        *)
(*   - create, run_non_interactive, _write_migration                       *)
(*     (src/src/migrations/create.rs)                                      *)
(* Three specifications share the module: SpecLin runs the linearizer on   *)
(* every bounded input, SpecWrite runs the migration file write from every *)
(* bounded starting filesystem, SpecCreate runs `create` against a server  *)
(* whose answers are chosen nondeterministically.                          *)
(***************************************************************************)
EXTENDS Naturals, Sequences, FiniteSets, TLC

VARIABLES
    \* ---- linearize_db_migrations ----
    migrations,     \* the input Vec<M>
    by_parent,      \* BTreeMap<String, Vec<M>>
    output,         \* IndexMap<String, M>, as the sequence of its values
    visited,        \* BTreeSet<String>
    queue,          \* Vec<M> used as a stack
    lpc,            \* "idle" | "loop" | "done"
    pops,           \* turns of the `while let` loop so far
    \* ---- find_by_prefix ----
    fpc,            \* "idle" | "query" | "test" | "done"
    table,          \* the names of the server's migrations, as tokens
    prefix,         \* the argument, as tokens
    reply,          \* what the query returned
    all_similar,    \* the Vec<DBMigration> bound to the reply
    found,          \* what find_by_prefix returned
    \* ---- create / run_non_interactive ----
    pc,             \* position inside create
    local_migrations, \* keys of migration::read_all(&ctx), in order
    serverTip,      \* name of the server's childless migration, or None
    non_interactive,\* create.non_interactive
    srvOpen,        \* the server holds an open speculative migration
    srvApplied,     \* the server executed a statement on that migration
    nStart,         \* START MIGRATION commands sent
    nAbort,         \* ABORT MIGRATION commands sent
    rounds,         \* DESCRIBE CURRENT MIGRATION queries sent
    db_migration,   \* answer of the tip lookup in create
    proposed,       \* data.proposed of the current round
    descr,          \* confirmed list of the round that ended the loop
    cur,            \* <<proposal index, statement index>> of the next statement
    executed,       \* texts executed in the current round, in order
    parent,         \* the parent looked up after the loop
    exec,           \* result of the non-interactive routine
    abort,          \* result of ABORT MIGRATION
    result,         \* what create returned
    schema_dir,     \* the entries of ctx.schema_dir, in the order read_dir gives
    text,           \* the text built by gen_start_migration, as lines
    sourcemap,      \* the source map built with it: the source of every line
    \* ---- filesystem and _write_migration ----
    fs,             \* path -> content (a sequence of lines) or NoFile
    dirExists,      \* <schema-dir>/migrations exists
    fs0,            \* <<fs, dirExists>> when the operation began
    wpos,           \* index of the next line to write
    fsOps           \* mutating filesystem calls issued so far

linVars == <<migrations, by_parent, output, visited, queue, lpc, pops>>
findVars == <<fpc, table, prefix, reply, all_similar, found>>
srvVars == <<serverTip, srvOpen, srvApplied, nStart, nAbort, rounds>>
createVars == <<pc, local_migrations, non_interactive, db_migration,
                proposed, descr, cur, executed, parent, exec, abort, result>>
schemaVars == <<schema_dir, text, sourcemap>>
fsVars == <<fs, dirExists, fs0, wpos, fsOps>>
vars == <<linVars, findVars, srvVars, createVars, schemaVars, fsVars>>

None == "None"

(***************************************************************************)
(* Bounds of the model.                                                    *)
(***************************************************************************)
MaxRecords == 4
MaxEdges == 4
MaxProposals == 2
MaxStmts == 3
MaxConfirmed == 2
MaxRounds == 2
MaxLocal == 1
MaxEntries == 2
MaxTable == 3
\* migration files in the directory, at most
MaxHistory == 3

(***************************************************************************)
(* linearize_db_migrations                                                 *)
(***************************************************************************)
Names == <<"A", "B", "C", "D", "E", "F">>

\* M::name
name(item) == item.name

\* M::iter_parents
iter_parents(item) == item.parent_names

is_root_unfiltered(item) == TRUE

\* M::is_root
is_root(item) == item.parent_names = <<>>

RECURSIVE Times(_, _)
\* how many times the name k occurs in a parent list
Times(ps, k) ==
    IF ps = <<>> THEN 0
    ELSE (IF Head(ps) = k THEN 1 ELSE 0) + Times(Tail(ps), k)

RECURSIVE Repeat(_, _)
Repeat(item, n) == IF n = 0 THEN <<>> ELSE <<item>> \o Repeat(item, n - 1)

RECURSIVE ChildrenOfLast(_, _)
\* by_parent.insert(parent, vec![item]) in place of entry(..).push(item)
ChildrenOfLast(migs, k) ==
    IF migs = <<>> THEN <<>>
    ELSE IF ChildrenOfLast(Tail(migs), k) # <<>> THEN ChildrenOfLast(Tail(migs), k)
    ELSE Repeat(Head(migs), IF Times(Head(migs).parent_names, k) > 0 THEN 1 ELSE 0)

RECURSIVE ChildrenOf(_, _)
\* the Vec stored under key k: every item once per occurrence of k among
\* its parents, in input order
ChildrenOf(migs, k) ==
    IF migs = <<>> THEN <<>>
    ELSE Repeat(Head(migs), Times(iter_parents(Head(migs)), k))
            \o ChildrenOf(Tail(migs), k)

ParentKeys(migs) ==
    UNION {{iter_parents(migs[i])[j] : j \in 1..Len(iter_parents(migs[i]))}
              : i \in 1..Len(migs)}

\* the first loop of linearize_db_migrations
BuildByParent(migs) == [k \in ParentKeys(migs) |-> ChildrenOf(migs, k)]

\* the seed of the work stack
Roots(migs) == SelectSeq(migs, is_root)

\* IndexMap::insert: a known key keeps its position and takes the new value
IndexMapInsert(out, item) ==
    IF \E i \in 1..Len(out) : name(out[i]) = name(item)
    THEN [i \in 1..Len(out) |->
             IF name(out[i]) = name(item) THEN item ELSE out[i]]
    ELSE Append(out, item)

\* the children pushed for a popped item
PushChildren(children, seen) ==
    SelectSeq(children, LAMBDA child : name(child) \notin seen)

\* the parent list of record i (from 0) under the parent entries es, each
\* entry the number (record * MaxRecords + parent), both counted from 0
ParentsIn(es, i) ==
    LET mine == SelectSeq(es, LAMBDA e : e \div MaxRecords = i)
    IN [j \in 1..Len(mine) |-> Names[(mine[j] % MaxRecords) + 1]]

\* n records with unique names; a name no record bears is a dangling parent
MkRecords(n, es) ==
    [i \in 1..n |-> [name |-> Names[i], parent_names |-> ParentsIn(es, i - 1)]]

RECURSIVE LinInput(_, _, _, _)
\* migrations is any list of n records with at most k parent entries more
\* than es, none below lo (parent lists are drawn sorted: their order is
\* not read by the function)
LinInput(n, k, lo, es) ==
    \/ migrations = MkRecords(n, es)
    \/ /\ k > 0
       /\ \E e \in lo..(n * MaxRecords - 1) : LinInput(n, k - 1, e, Append(es, e))

LinIdle ==
    /\ migrations = <<>>
    /\ by_parent = <<>>
    /\ output = <<>>
    /\ visited = {}
    /\ queue = <<>>
    /\ lpc = "idle"
    /\ pops = 0

LinPopKeepsAll ==
    /\ lpc = "loop"
    /\ queue # <<>>
    /\ LET item == queue[Len(queue)]
           rest == SubSeq(queue, 1, Len(queue) - 1)
           children == IF name(item) \in DOMAIN by_parent
                       THEN by_parent[name(item)] ELSE <<>>
       IN /\ output' = IndexMapInsert(output, item)
          /\ visited' = visited \cup {name(item)}
          /\ by_parent' = by_parent
          /\ queue' = rest \o children
    /\ pops' = pops + 1
    /\ UNCHANGED <<migrations, lpc>>

\* one iteration of `while let Some(item) = queue.pop()`
LinPop ==
    /\ lpc = "loop"
    /\ queue # <<>>
    /\ LET item == queue[Len(queue)]
           rest == SubSeq(queue, 1, Len(queue) - 1)
           seen == visited \cup {name(item)}
           children == IF name(item) \in DOMAIN by_parent
                       THEN by_parent[name(item)] ELSE <<>>
       IN /\ output' = IndexMapInsert(output, item)
          /\ visited' = seen
          /\ by_parent' = [k \in DOMAIN by_parent \ {name(item)} |-> by_parent[k]]
          /\ queue' = rest \o PushChildren(children, seen)
    /\ pops' = pops + 1
    /\ UNCHANGED <<migrations, lpc>>

\* the stack is empty: return output
LinReturn ==
    /\ lpc = "loop"
    /\ queue = <<>>
    /\ lpc' = "done"
    /\ UNCHANGED <<migrations, by_parent, output, visited, queue, pops>>

(***************************************************************************)
(* Results, files, server answers                                          *)
(***************************************************************************)
Ok == [ok |-> TRUE, errors |-> <<>>]
Err(e) == [ok |-> FALSE, errors |-> <<e>>]
NotRun == [ok |-> FALSE, errors |-> <<>>]

\* Result::and, as used in `exec.and(abort)?`
And(a, b) == IF a.ok THEN b ELSE a

NoFile == [exists |-> FALSE, lines |-> <<>>]
File(ls) == [exists |-> TRUE, lines |-> ls]
OldFile == File(<<"CREATE MIGRATION old", "    ONTO initial", "{", "};">>)
StaleTmp == File(<<"CREATE MIGRATION stale">>)

\* const SAFE_CONFIDENCE: f64 = 0.99999, in units of 0.00001
SAFE_CONFIDENCE == 99999
Confidences == {SAFE_CONFIDENCE - 1, SAFE_CONFIDENCE, SAFE_CONFIDENCE + 1}

\* a statement text is the sequence of its lines
StmtText(i, j) == <<"p" \o ToString(i) \o "s" \o ToString(j)>>
\* a statement the hasher cannot normalize: a string left open
BadText == <<"select 'x">>

ConfirmedTexts == {StmtText(1, 1), <<"x {", "}">>, BadText}

RequiredUserInputs == {<<>>, <<[name |-> "n", prompt |-> "p?"]>>}

\* what the server chooses for one proposal of m statements: the required
\* input of each statement, and the confidence
ProposalShapes(m) ==
    {[inputs |-> r, confidence |-> c]
        : r \in [1..m -> RequiredUserInputs], c \in Confidences}

\* the Proposal in place i of data.proposed
MkProposal(i, shape) ==
    [statements |-> [j \in 1..Len(shape.inputs) |->
                        [text |-> StmtText(i, j),
                         required_user_input |-> shape.inputs[j]]],
     confidence |-> shape.confidence]

MkProposed(shapes) == [i \in 1..Len(shapes) |-> MkProposal(i, shapes[i])]

RECURSIVE Proposes(_, _, _)
\* the server answers with a non-empty data.proposed: the proposals chosen so
\* far are `shapes`, up to k more follow, with up to `left` statements in all
Proposes(k, left, shapes) ==
    \/ /\ shapes # <<>>
       /\ proposed' = MkProposed(shapes)
    \/ /\ k > 0
       /\ \E m \in 0..left : \E shape \in ProposalShapes(m) :
             Proposes(k - 1, left - m, Append(shapes, shape))

RECURSIVE SeqsOf(_, _)
SeqsOf(S, n) ==
    IF n = 0 THEN {<<>>}
    ELSE UNION {{<<x>> \o r : r \in SeqsOf(S, n - 1)} : x \in S}

ConfirmedLists == UNION {SeqsOf(ConfirmedTexts, n) : n \in 0..MaxConfirmed}

(***************************************************************************)
(* _write_migration                                                        *)
(***************************************************************************)
\* s.clone() + ";"
AddSemi(s) == [s EXCEPT ![Len(s)] = @ \o ";"]

StatementsReversed(confirmed) ==
    [i \in 1..Len(confirmed) |-> AddSemi(confirmed[Len(confirmed) + 1 - i])]

\* descr.confirmed.iter().map(|s| s.clone() + ";")
Statements(confirmed) == [i \in 1..Len(confirmed) |-> AddSemi(confirmed[i])]

RECURSIVE Flatten(_)
Flatten(ss) == IF ss = <<>> THEN <<>> ELSE Head(ss) \o Flatten(Tail(ss))

RECURSIVE Join(_)
Join(ls) == IF ls = <<>> THEN "" ELSE Head(ls) \o "/" \o Join(Tail(ls))

\* whether hasher.source(statement) returns Ok
Hashable(statement) == statement # AddSemi(BadText)

\* migration::Hasher: new(parent), source(statement)..., make_id()
MakeId(par, statements) == "m1[" \o par \o "|" \o Join(Flatten(statements)) \o "]"

\* the lines of the migration file, in the order they are written
FileLines(par, confirmed) ==
    LET statements == Statements(confirmed)
        body == Flatten(statements)
    IN <<"CREATE MIGRATION " \o MakeId(par, statements),
         "    ONTO " \o par,
         "{">>
       \o [i \in 1..Len(body) |-> "  " \o body[i]]
       \o <<"};">>

indexUnincremented == Len(local_migrations)

\* migrations.len() as u64 + 1, the index given to run_non_interactive
index == Len(local_migrations) + 1

\* format!("{:05}", n): the decimal digits of n, filled with zeros on the left
\* up to five places
Pad5(n) ==
    (IF n < 10 THEN "0000"
     ELSE IF n < 100 THEN "000"
     ELSE IF n < 1000 THEN "00"
     ELSE IF n < 10000 THEN "0"
     ELSE "") \o ToString(n)

\* ctx.schema_dir.join("migrations").join(format!("{:05}.edgeql", index)),
\* from the schema directory
FilePath(i) == "migrations/" \o Pad5(i) \o ".edgeql"

\* dir.join(format!(".~{}.tmp", <file name>))
TmpPath(i) == "migrations/.~" \o Pad5(i) \o ".edgeql.tmp"

\* the paths of the model
Paths == UNION {{FilePath(i), TmpPath(i)} : i \in 0..MaxHistory}

\* the migration file number i of the local history
MigrationFile(i) ==
    File(<<"CREATE MIGRATION m" \o ToString(i),
           "    ONTO " \o (IF i = 1 THEN "initial" ELSE "m" \o ToString(i - 1)),
           "{", "};">>)

\* the local histories: the keys that migration::read_all returns
LocalHistories ==
    {[i \in 1..n |-> "m" \o ToString(i)] : n \in 0..MaxLocal}

\* the files of the local history ms, and nothing else
HistoryFiles(ms) ==
    [p \in Paths |-> IF \E i \in 1..Len(ms) : p = FilePath(i)
                     THEN MigrationFile(CHOOSE i \in 1..Len(ms) : p = FilePath(i))
                     ELSE NoFile]

FinalFile == FilePath(index)

TmpFileIsFinal == FilePath(index)

\* tmp_file = dir.join(".~<file name>.tmp")
TmpFile == TmpPath(index)

\* the next step of the same function
Continue(next) ==
    /\ pc' = next
    /\ UNCHANGED <<exec, result>>

ReturnEarly(res) ==
    /\ exec' = res
    /\ IF res.ok THEN pc' = "returned" /\ result' = result
       ELSE pc' = "done" /\ result' = res

\* run_non_interactive (or, alone, _write_migration) returns res to create,
\* which holds it in `exec` and goes on
Return(res) ==
    /\ exec' = res
    /\ pc' = "returned"
    /\ result' = result

WHashUnchecked ==
    /\ pc = "w_hash"
    /\ Continue("w_mkdir")
    /\ UNCHANGED <<linVars, findVars, schemaVars, srvVars, fsVars, local_migrations, non_interactive,
                   db_migration, proposed, descr, cur, executed, parent, abort>>

\* for statement in &statements { hasher.source(statement)?; }
WHash ==
    /\ pc = "w_hash"
    /\ LET statements == Statements(descr)
       IN IF \A i \in 1..Len(statements) : Hashable(statements[i])
          THEN Continue("w_mkdir")
          ELSE Return(Err("hasher"))
    /\ UNCHANGED <<linVars, findVars, schemaVars, srvVars, fsVars, local_migrations, non_interactive,
                   db_migration, proposed, descr, cur, executed, parent, abort>>

\* if !filepath.exists() { create_dir_all(dir)? }
WMkdir ==
    /\ pc = "w_mkdir"
    /\ IF ~fs[FinalFile].exists
       THEN /\ fsOps' = fsOps + 1
            /\ \E okm \in BOOLEAN :
                  IF okm THEN dirExists' = TRUE /\ Continue("w_rmtmp")
                  ELSE dirExists' = dirExists /\ Return(Err("create_dir_all"))
       ELSE /\ Continue("w_rmtmp")
            /\ UNCHANGED <<fsOps, dirExists>>
    /\ UNCHANGED <<linVars, findVars, schemaVars, srvVars, fs, fs0, wpos, local_migrations,
                   non_interactive, db_migration, proposed, descr, cur,
                   executed, parent, abort>>

\* fs::remove_file(&tmp_file).await.ok()
WRemoveTmp ==
    /\ pc = "w_rmtmp"
    /\ fsOps' = fsOps + 1
    /\ \E okr \in BOOLEAN :
          fs' = IF okr THEN [fs EXCEPT ![TmpFile] = NoFile] ELSE fs
    /\ Continue("w_create")
    /\ UNCHANGED <<linVars, findVars, schemaVars, srvVars, dirExists, fs0, wpos, local_migrations,
                   non_interactive, db_migration, proposed, descr, cur,
                   executed, parent, abort>>

WCreateAppend ==
    /\ pc = "w_create"
    /\ fsOps' = fsOps + 1
    /\ \E okc \in BOOLEAN :
          IF okc /\ dirExists
          THEN /\ fs' = [fs EXCEPT ![TmpFile] = File(fs[TmpFile].lines)]
               /\ wpos' = 1
               /\ Continue("w_write")
          ELSE /\ UNCHANGED <<fs, wpos>>
               /\ Return(Err("create"))
    /\ UNCHANGED <<linVars, findVars, schemaVars, srvVars, dirExists, fs0, local_migrations,
                   non_interactive, db_migration, proposed, descr, cur,
                   executed, parent, abort>>

\* fs::File::create(&tmp_file)
WCreate ==
    /\ pc = "w_create"
    /\ fsOps' = fsOps + 1
    /\ \E okc \in BOOLEAN :
          IF okc /\ dirExists
          THEN /\ fs' = [fs EXCEPT ![TmpFile] = File(<<>>)]
               /\ wpos' = 1
               /\ Continue("w_write")
          ELSE /\ UNCHANGED <<fs, wpos>>
               /\ Return(Err("create"))
    /\ UNCHANGED <<linVars, findVars, schemaVars, srvVars, dirExists, fs0, local_migrations,
                   non_interactive, db_migration, proposed, descr, cur,
                   executed, parent, abort>>

\* one file.write(...) of the header, a statement line or the footer
\* (the BufWriter only delays the moment the line reaches tmp_file)
WWriteLine ==
    /\ pc = "w_write"
    /\ LET ls == FileLines(parent, descr)
       IN /\ wpos <= Len(ls)
          /\ fsOps' = fsOps + 1
          /\ \E okw \in BOOLEAN :
                IF okw
                THEN /\ fs' = [fs EXCEPT ![TmpFile] =
                                  File(Append(fs[TmpFile].lines, ls[wpos]))]
                     /\ wpos' = wpos + 1
                     /\ Continue(IF wpos = Len(ls) THEN "w_flush" ELSE "w_write")
                ELSE /\ UNCHANGED <<fs, wpos>>
                     /\ Return(Err("write"))
    /\ UNCHANGED <<linVars, findVars, schemaVars, srvVars, dirExists, fs0, local_migrations,
                   non_interactive, db_migration, proposed, descr, cur,
                   executed, parent, abort>>

\* file.flush(); drop(file)
WFlush ==
    /\ pc = "w_flush"
    /\ \E okf \in BOOLEAN :
          IF okf THEN Continue("w_rename") ELSE Return(Err("flush"))
    /\ UNCHANGED <<linVars, findVars, schemaVars, srvVars, fsVars, local_migrations, non_interactive,
                   db_migration, proposed, descr, cur, executed, parent, abort>>

\* fs::rename(&tmp_file, &filepath)
WRename ==
    /\ pc = "w_rename"
    /\ fsOps' = fsOps + 1
    /\ \E okn \in BOOLEAN :
          IF okn
          THEN /\ fs' = IF TmpFile = FinalFile THEN fs  \* a path onto itself
                        ELSE [fs EXCEPT ![FinalFile] = fs[TmpFile],
                                        ![TmpFile] = NoFile]
               /\ Return(Ok)
          ELSE /\ fs' = fs
               /\ Return(Err("rename"))
    /\ UNCHANGED <<linVars, findVars, schemaVars, srvVars, dirExists, fs0, wpos, local_migrations,
                   non_interactive, db_migration, proposed, descr, cur,
                   executed, parent, abort>>

\* the process is killed in the middle of the write
Crash ==
    /\ pc \in {"w_hash", "w_mkdir", "w_rmtmp", "w_create", "w_write",
               "w_flush", "w_rename"}
    /\ pc' = "crashed"
    /\ UNCHANGED <<linVars, findVars, schemaVars, srvVars, fsVars, local_migrations, non_interactive,
                   db_migration, proposed, descr, cur, executed, parent, exec,
                   abort, result>>

WriteNext == WHash \/ WMkdir \/ WRemoveTmp \/ WCreate \/ WWriteLine \/ WFlush \/ WRename

(***************************************************************************)
(* read_schema_file and gen_start_migration                                *)
(*                                                                         *)
(* A text is a sequence of tokens: "\n" is the end of a line, ";" "{" "}"  *)
(* and " " are those characters, any other token is text without them.     *)
(* A file name is a sequence of tokens too, "." being the dot.             *)
(***************************************************************************)
SemicolonError == Err("final statement does not end with a semicolon")

\* preparser::is_empty: nothing but white space
is_empty(data) == \A k \in 1..Len(data) : data[k] \in {" ", "\n"}

RECURSIVE ScanStatement(_, _, _)
\* the scan of preparser::full_statement from place k inside `depth` braces:
\* the place of the first semicolon outside braces, 0 when there is none
ScanStatement(data, k, depth) ==
    IF k > Len(data) THEN 0
    ELSE IF data[k] = ";" /\ depth = 0 THEN k
    ELSE IF data[k] = "{" THEN ScanStatement(data, k + 1, depth + 1)
    ELSE IF data[k] = "}" /\ depth > 0 THEN ScanStatement(data, k + 1, depth - 1)
    ELSE ScanStatement(data, k + 1, depth)

\* preparser::full_statement(data, None): Ok(shift) as shift > 0, Err as 0
full_statement(data) == ScanStatement(data, 1, 0)

read_schema_file_unchecked(data, offset) ==
    [ok |-> TRUE, errors |-> <<>>, data |-> data]

RECURSIVE read_schema_file(_, _)
\* the loop of read_schema_file over the content `data`, from `offset`
read_schema_file(data, offset) ==
    LET rest == SubSeq(data, offset + 1, Len(data))
        shift == full_statement(rest)
    IN IF shift > 0 THEN read_schema_file(data, offset + shift)
       ELSE IF ~is_empty(rest)
            THEN [ok |-> FALSE, errors |-> SemicolonError.errors, data |-> <<>>]
            ELSE [ok |-> TRUE, errors |-> <<>>, data |-> data]

\* lossy_name.starts_with(".")
starts_with_dot(fname) == fname # <<>> /\ fname[1] = "."

\* lossy_name.ends_with(".esdl")
ends_with_esdl(fname) ==
    /\ Len(fname) >= 2
    /\ fname[Len(fname) - 1] = "."
    /\ fname[Len(fname)] = "esdl"

SkippedUnlessEsdl(item) == ~ends_with_esdl(item.name)

\* the test before `continue` in gen_start_migration
Skipped(item) ==
    \/ starts_with_dot(item.name)
    \/ ~ends_with_esdl(item.name)
    \/ ~item.is_file

\* enum SourceName { Prefix, Suffix, File(PathBuf) }
Prefix == [kind |-> "Prefix", path |-> <<>>]
Suffix == [kind |-> "Suffix", path |-> <<>>]
SourceFile(path) == [kind |-> "File", path |-> path]

RECURSIVE JoinTokens(_)
JoinTokens(ts) == IF ts = <<>> THEN "" ELSE Head(ts) \o JoinTokens(Tail(ts))

\* the place of the first "\n" of data, 0 when there is none
FirstNewline(data) ==
    IF \E k \in 1..Len(data) : data[k] = "\n"
    THEN CHOOSE k \in 1..Len(data) :
            data[k] = "\n" /\ \A j \in 1..(k - 1) : data[j] # "\n"
    ELSE 0

RECURSIVE Lines(_)
\* the lines of a text, each as one string
Lines(data) ==
    IF data = <<>> THEN <<>>
    ELSE LET n == FirstNewline(data)
         IN IF n = 0 THEN <<JoinTokens(data)>>
            ELSE <<JoinTokens(SubSeq(data, 1, n - 1))>>
                 \o Lines(SubSeq(data, n + 1, Len(data)))

\* Builder::add_lines(source, data): every line of data, with its source and
\* its number in data
add_lines(bld, source, data) ==
    bld \o [k \in 1..Len(Lines(data)) |->
               [source |-> source, number |-> k, line |-> Lines(data)[k]]]

\* Builder::done(): the text and the source map
done(bld) ==
    [ok |-> TRUE, errors |-> <<>>,
     text |-> [k \in 1..Len(bld) |-> bld[k].line],
     sourcemap |-> [k \in 1..Len(bld) |->
                      [source |-> bld[k].source, number |-> bld[k].number]]]

RECURSIVE GenFrom(_, _, _)
\* the `while let Some(item) = dir.next()` loop from entry i on, then the
\* suffix and done()
GenFrom(dir, i, bld) ==
    IF i > Len(dir) THEN done(add_lines(bld, Suffix, <<"};">>))
    ELSE IF Skipped(dir[i]) THEN GenFrom(dir, i + 1, bld)
    ELSE LET chunk == read_schema_file(dir[i].data, 0)
         IN IF ~chunk.ok
            THEN [ok |-> FALSE, errors |-> chunk.errors,
                  text |-> <<>>, sourcemap |-> <<>>]
            ELSE GenFrom(dir, i + 1,
                         add_lines(bld, SourceFile(dir[i].name), chunk.data))

\* gen_start_migration on the directory entries `dir`, when no call of the
\* filesystem fails
gen_start_migration(dir) ==
    GenFrom(dir, 1, add_lines(<<>>, Prefix, <<"START MIGRATION TO {">>))

\* file names and contents of the model
FileNames ==
    {<<"a", ".", "esdl">>, <<"b", ".", "esdl">>, <<".", "a", ".", "esdl">>,
     <<"a", ".", "txt">>, <<".", "esdl">>, <<"a", "esdl">>}

SchemaTexts ==
    {<<>>,
     <<" ", "\n">>,
     <<"a", ";">>,
     <<"a", ";", "\n", "\n", "b", ";", " ", "\n">>,
     <<"a", ";", "\n", "b">>,
     <<"a", "{", "\n", "b", ";", "\n", "}">>,
     <<"a", "{", "\n", "b", ";", "\n", "}", ";", "\n">>}

\* what one directory entry can be: a regular file or a directory
DirEntries ==
    {[name |-> n, is_file |-> TRUE, data |-> d] : n \in FileNames, d \in SchemaTexts}
    \cup {[name |-> n, is_file |-> FALSE, data |-> <<>>] : n \in FileNames}

\* a schema directory with one schema file of two statements
ExampleDir ==
    <<[name |-> <<"a", ".", "esdl">>, is_file |-> TRUE,
       data |-> <<"a", ";", "\n", "\n", "b", ";", " ", "\n">>]>>

(***************************************************************************)
(* find_by_prefix                                                          *)
(***************************************************************************)
\* names of migrations on the server and prefixes asked for, as tokens
TableNames == {<<"m", "1", "a">>, <<"m", "1", "b">>, <<"m", "2">>, <<"n">>}

Prefixes == {<<>>, <<"m">>, <<"m", "1">>, <<"m", "1", "a">>, <<"x">>}

\* the server's test `.name LIKE <prefix>%`, for a prefix without wild cards
Like(tokens, pre) ==
    /\ Len(pre) <= Len(tokens)
    /\ SubSeq(tokens, 1, Len(pre)) = pre

\* the DBMigration record of the migration so named
RecordOf(tokens) == [name |-> JoinTokens(tokens), parent_names |-> <<>>]

\* the sequences that hold every element of the set S once
Orders(S) ==
    {q \in [1..Cardinality(S) -> S] : \A i, j \in 1..Cardinality(S) :
                                          q[i] = q[j] => i = j}

Some(x) == <<x>>

TooManyNever(v) == FALSE

\* all_similar.len() > 1
TooMany(v) == Len(v) > 1

FindIdle ==
    /\ fpc = "idle"
    /\ table = {}
    /\ prefix = <<>>
    /\ reply = <<>>
    /\ all_similar = <<>>
    /\ found = NotRun

\* let mut all_similar = cli.query::<DBMigration, _>(...).await?
FindQuery ==
    /\ fpc = "query"
    /\ \/ /\ found' = [ok |-> FALSE, errors |-> <<"query">>, value |-> <<>>]
          /\ fpc' = "done"
          /\ UNCHANGED <<reply, all_similar>>
       \/ \E q \in Orders({t \in table : Like(t, prefix)}) :
             /\ reply' = [i \in 1..Len(q) |-> RecordOf(q[i])]
             /\ all_similar' = reply'
             /\ fpc' = "test"
             /\ found' = found
    /\ UNCHANGED <<table, prefix>>

\* the two tests and `return Ok(all_similar.pop())`
FindReturn ==
    /\ fpc = "test"
    /\ IF all_similar = <<>>
       THEN /\ found' = [ok |-> TRUE, errors |-> <<>>, value |-> <<>>]
            /\ all_similar' = all_similar
       ELSE IF TooMany(all_similar)
       THEN /\ found' = [ok |-> FALSE,
                         errors |-> <<"more than one migration matches prefix">>,
                         value |-> <<>>]
            /\ all_similar' = all_similar
       ELSE /\ found' = [ok |-> TRUE, errors |-> <<>>,
                         value |-> Some(all_similar[Len(all_similar)])]
            /\ all_similar' = SubSeq(all_similar, 1, Len(all_similar) - 1)
    /\ fpc' = "done"
    /\ UNCHANGED <<table, prefix, reply>>

(***************************************************************************)
(* create and run_non_interactive                                          *)
(***************************************************************************)
FirstKey(ms) == IF ms = <<>> THEN None ELSE ms[1]

\* migrations.keys().last()
LastKey(ms) == IF ms = <<>> THEN None ELSE ms[Len(ms)]

HistoryMatchesAlways(db, ms) == TRUE

\* the test of `db_migration.as_ref() != migrations.keys().last()`
HistoryMatches(db, ms) == db = LastKey(ms)

HighConfidenceStrict(p) == p.confidence > SAFE_CONFIDENCE

\* proposal.confidence >= SAFE_CONFIDENCE
HighConfidence(p) == p.confidence >= SAFE_CONFIDENCE

NeedsInputNever(statement) == FALSE

\* !statement.required_user_input.is_empty()
NeedsInput(statement) == statement.required_user_input # <<>>

NoCur == <<0, 0>>

RECURSIVE NextCur(_, _, _)
\* the next statement the two nested `for` loops reach from place <<i, j>>
NextCur(pr, i, j) ==
    IF i > Len(pr) THEN NoCur
    ELSE IF HighConfidence(pr[i]) /\ j <= Len(pr[i].statements) THEN <<i, j>>
    ELSE NextCur(pr, i + 1, 1)

\* `?` or bail! inside create: create returns res at once
Stop(res) ==
    /\ result' = res
    /\ pc' = "done"
    /\ exec' = exec

\* migration::read_all(&ctx, true).await?
ReadAll ==
    /\ pc = "read_all"
    /\ \E okr \in BOOLEAN :
          IF okr THEN Continue("gen_start") ELSE Stop(Err("read_all"))
    /\ UNCHANGED <<linVars, findVars, schemaVars, srvVars, fsVars, local_migrations, non_interactive,
                   db_migration, proposed, descr, cur, executed, parent, abort>>

\* let (text, sourcemap) = gen_start_migration(&ctx).await?
\* (okg: read_dir, file_type and read_to_string all return Ok)
GenStartMigration ==
    /\ pc = "gen_start"
    /\ \E okg \in BOOLEAN :
          IF okg
          THEN LET r == gen_start_migration(schema_dir)
               IN IF r.ok
                  THEN /\ text' = r.text
                       /\ sourcemap' = r.sourcemap
                       /\ Continue("start")
                  ELSE /\ UNCHANGED <<text, sourcemap>>
                       /\ Stop([ok |-> FALSE, errors |-> r.errors])
          ELSE /\ UNCHANGED <<text, sourcemap>>
               /\ Stop(Err("gen_start_migration"))
    /\ UNCHANGED <<linVars, findVars, schema_dir, srvVars, fsVars,
                   local_migrations,
                   non_interactive, db_migration, proposed, descr, cur,
                   executed, parent, abort>>

\* cli.execute(text).await?  -- START MIGRATION TO { ... }
StartMigration ==
    /\ pc = "start"
    /\ nStart' = nStart + 1
    /\ \E oks \in BOOLEAN :
          IF oks THEN srvOpen' = TRUE /\ Continue("tip")
          ELSE srvOpen' = srvOpen /\ Stop(Err("start"))
    /\ UNCHANGED <<linVars, findVars, schemaVars, fsVars, serverTip, srvApplied, nAbort, rounds,
                   local_migrations,
                   non_interactive, db_migration, proposed, descr, cur,
                   executed, parent, abort>>

\* let db_migration = cli.query_row_opt(<childless migration>).await?
TipLookup ==
    /\ pc = "tip"
    /\ \E okt \in BOOLEAN :
          IF okt THEN db_migration' = serverTip /\ Continue("check")
          ELSE db_migration' = db_migration /\ Stop(Err("tip_query"))
    /\ UNCHANGED <<linVars, findVars, schemaVars, srvVars, fsVars, local_migrations, non_interactive,
                   proposed, descr, cur, executed, parent, abort>>

\* the history test, then the choice of the interactive or non-interactive way
CheckHistory ==
    /\ pc = "check"
    /\ IF ~HistoryMatches(db_migration, local_migrations)
       THEN Stop(Err("validation"))
       ELSE IF non_interactive
            THEN Continue("describe")
            ELSE Stop(Err("not_implemented"))
    /\ UNCHANGED <<linVars, findVars, schemaVars, srvVars, fsVars, local_migrations, non_interactive,
                   db_migration, proposed, descr, cur, executed, parent, abort>>

\* cli.query_row::<CurrentMigration>("DESCRIBE CURRENT MIGRATION AS JSON"),
\* then `break data` when nothing is proposed
DescribeRound(counted) ==
    /\ pc = "describe"
    /\ rounds' = counted
    /\ \/ /\ Return(Err("describe"))
          /\ UNCHANGED <<proposed, descr, cur, executed>>
       \/ \E confirmed \in ConfirmedLists :
             /\ proposed' = <<>>
             /\ descr' = confirmed
             /\ cur' = NoCur
             /\ executed' = <<>>
             /\ Continue("parent")
       \/ /\ Proposes(MaxProposals, MaxStmts, <<>>)
          /\ cur' = NoCur
          /\ executed' = <<>>
          /\ descr' = descr
          /\ Continue("for")
    /\ UNCHANGED <<linVars, findVars, schemaVars, fsVars, serverTip, srvOpen, srvApplied, nStart, nAbort,
                   local_migrations, non_interactive, db_migration, parent,
                   abort>>

\* one turn of the `loop`, while the model counts the rounds
Describe ==
    /\ rounds < MaxRounds
    /\ DescribeRound(rounds + 1)

\* one turn of the `loop` past the rounds the model counts: the code has no
\* test that ends the loop there
DescribeOn ==
    /\ rounds = MaxRounds
    /\ DescribeRound(rounds)

\* `for proposal in &data.proposed`, up to the first statement it reaches
ForProposals ==
    /\ pc = "for"
    /\ cur' = NextCur(proposed, 1, 1)
    /\ IF cur' = NoCur
       THEN \* nothing to apply: the round is over, data is dropped
            /\ Continue("describe")
            /\ proposed' = <<>>
       ELSE /\ Continue("apply")
            /\ proposed' = proposed
    /\ UNCHANGED <<linVars, findVars, schemaVars, srvVars, fsVars, local_migrations, non_interactive,
                   db_migration, descr, executed, parent, abort>>

\* the body of the inner `for`: the input test, then cli.execute(&statement.text)
Apply ==
    /\ pc = "apply"
    /\ LET statement == proposed[cur[1]].statements[cur[2]]
       IN IF NeedsInput(statement)
          THEN /\ Return(Err("user_input_required"))
               /\ UNCHANGED <<cur, executed, proposed, srvApplied>>
          ELSE \E oke \in BOOLEAN :
                  IF oke
                  THEN /\ srvApplied' = TRUE
                       /\ cur' = NextCur(proposed, cur[1], cur[2] + 1)
                       /\ IF cur' = NoCur
                          THEN \* the round is over: data is dropped
                               /\ Continue("describe")
                               /\ proposed' = <<>>
                               /\ executed' = <<>>
                          ELSE /\ Continue("apply")
                               /\ proposed' = proposed
                               /\ executed' = Append(executed, statement.text)
                  ELSE /\ Return(Err("execute"))
                       /\ UNCHANGED <<cur, executed, proposed, srvApplied>>
    /\ UNCHANGED <<linVars, findVars, schemaVars, fsVars, serverTip, srvOpen, nStart, nAbort, rounds,
                   local_migrations, non_interactive,
                   db_migration, descr, parent, abort>>

ParentLookupStale ==
    /\ pc = "parent"
    /\ \E okp \in BOOLEAN :
          IF okp
          THEN /\ parent' = IF db_migration = None THEN "initial"
                            ELSE db_migration
               /\ Continue("w_hash")
          ELSE /\ parent' = parent
               /\ Return(Err("parent_query"))
    /\ UNCHANGED <<linVars, findVars, schemaVars, srvVars, fsVars, local_migrations, non_interactive,
                   db_migration, proposed, descr, cur, executed, abort>>

\* let parent = cli.query_row_opt(<childless migration>).await?, or "initial"
ParentLookup ==
    /\ pc = "parent"
    /\ \E okp \in BOOLEAN :
          IF okp
          THEN /\ parent' = IF serverTip = None THEN "initial" ELSE serverTip
               /\ Continue("w_hash")
          ELSE /\ parent' = parent
               /\ Return(Err("parent_query"))
    /\ UNCHANGED <<linVars, findVars, schemaVars, srvVars, fsVars, local_migrations, non_interactive,
                   db_migration, proposed, descr, cur, executed, abort>>

\* let abort = cli.execute("ABORT MIGRATION").await; exec.and(abort)?; Ok(())
AbortMigration ==
    /\ pc = "returned"
    /\ nAbort' = nAbort + 1
    /\ \E oka \in BOOLEAN :
          /\ abort' = IF oka THEN Ok ELSE Err("abort")
          /\ srvOpen' = IF oka THEN FALSE ELSE srvOpen
    /\ result' = And(exec, abort')
    /\ pc' = "done"
    /\ UNCHANGED <<linVars, findVars, schemaVars, fsVars, serverTip, srvApplied, nStart, rounds,
                   local_migrations,
                   non_interactive, db_migration, proposed, descr, cur,
                   executed, parent, exec>>

\* the names the server's childless record can have
Tips == {None, "m1", "m2"}

\* the parents a migration file of the model can be written onto
KnownParents == {"initial"} \cup (Tips \ {None})

\* the migration ids of the model
KnownIds ==
    {"m" \o ToString(i) : i \in 1..MaxHistory}
        \cup {MakeId(par, Statements(confirmed)) :
                 par \in KnownParents, confirmed \in ConfirmedLists}

\* the id in the header line `CREATE MIGRATION <id>` of a migration file
IdOf(file) ==
    CHOOSE id \in KnownIds : file.lines[1] = "CREATE MIGRATION " \o id

RECURSIVE LastNumber(_, _)
\* the number of the last of the files i, i+1, ... that are there, i - 1 if none
LastNumber(files, i) ==
    IF i <= MaxHistory /\ files[FilePath(i)].exists
    THEN LastNumber(files, i + 1) ELSE i - 1

\* migration::read_all: the ids of the migration files, by sequence number
read_all(files) ==
    [i \in 1..LastNumber(files, 1) |-> IdOf(files[FilePath(i)])]

\* create is run again, on a new connection, with the directory and the
\* server as the run before left them: after a run that wrote its file, or
\* one that left no file behind
CreateAgain ==
    /\ pc = "done"
    /\ exec.ok \/ fs = fs0[1]
    /\ Len(read_all(fs)) < MaxHistory
    /\ pc' = "read_all"
    /\ local_migrations' = read_all(fs)
    /\ non_interactive' \in BOOLEAN
    /\ srvOpen' = FALSE
    /\ srvApplied' = FALSE
    /\ nStart' = 0
    /\ nAbort' = 0
    /\ rounds' = 0
    /\ db_migration' = None
    /\ proposed' = <<>>
    /\ descr' = <<>>
    /\ cur' = NoCur
    /\ executed' = <<>>
    /\ parent' = "initial"
    /\ exec' = NotRun
    /\ abort' = NotRun
    /\ result' = NotRun
    /\ text' = <<>>
    /\ sourcemap' = <<>>
    /\ fs0' = <<fs, dirExists>>
    /\ wpos' = 0
    /\ fsOps' = 0
    /\ UNCHANGED <<linVars, findVars, serverTip, schema_dir, fs, dirExists>>

\* another client of the same server: by the time of the query of
\* create.rs:123-127 the childless record is no longer the one that
\* db_migration was read from
TipMoves ==
    /\ pc = "parent"
    /\ serverTip = db_migration
    /\ serverTip' \in Tips \ {serverTip}
    /\ UNCHANGED <<linVars, findVars, schemaVars, fsVars, createVars,
                   srvOpen, srvApplied, nStart, nAbort, rounds>>

(***************************************************************************)
(* Specifications                                                          *)
(***************************************************************************)
CreateIdle ==
    /\ pc = "idle"
    /\ local_migrations = <<>>
    /\ serverTip = None
    /\ non_interactive = TRUE
    /\ srvOpen = FALSE
    /\ srvApplied = FALSE
    /\ nStart = 0
    /\ nAbort = 0
    /\ rounds = 0
    /\ db_migration = None
    /\ proposed = <<>>
    /\ descr = <<>>
    /\ cur = NoCur
    /\ executed = <<>>
    /\ parent = "initial"
    /\ exec = NotRun
    /\ abort = NotRun
    /\ result = NotRun
    /\ schema_dir = <<>>
    /\ text = <<>>
    /\ sourcemap = <<>>

FsIdle ==
    /\ fs = [p \in Paths |-> NoFile]
    /\ dirExists = FALSE
    /\ fs0 = <<fs, dirExists>>
    /\ wpos = 0
    /\ fsOps = 0

\* linearize_db_migrations called on every bounded input
InitLin ==
    /\ \E n \in 0..MaxRecords : LinInput(n, MaxEdges, 0, <<>>)
    /\ by_parent = BuildByParent(migrations)
    /\ output = <<>>
    /\ visited = {}
    /\ queue = Roots(migrations)
    /\ lpc = "loop"
    /\ pops = 0
    /\ FindIdle
    /\ CreateIdle
    /\ FsIdle

NextLin ==
    \/ (LinPop /\ UNCHANGED <<findVars, srvVars, createVars, schemaVars, fsVars>>)
    \/ (LinReturn /\ UNCHANGED <<findVars, srvVars, createVars, schemaVars, fsVars>>)

SpecLin == InitLin /\ [][NextLin]_vars

\* _write_migration called with every bounded descr and parent, on every
\* bounded state of the two paths
InitWrite ==
    /\ LinIdle
    /\ FindIdle
    /\ pc = "w_hash"
    /\ local_migrations \in LocalHistories
    /\ serverTip = None
    /\ non_interactive = TRUE
    /\ srvOpen = FALSE
    /\ srvApplied = FALSE
    /\ nStart = 0
    /\ nAbort = 0
    /\ rounds = 0
    /\ db_migration = None
    /\ proposed = <<>>
    /\ descr \in ConfirmedLists
    /\ cur = NoCur
    /\ executed = <<>>
    /\ parent \in {"initial", "m1"}
    /\ exec = NotRun
    /\ abort = NotRun
    /\ result = NotRun
    /\ schema_dir = ExampleDir
    /\ text = <<>>
    /\ sourcemap = <<>>
    /\ \E final \in {NoFile, OldFile}, tmp \in {NoFile, StaleTmp} :
          fs = [HistoryFiles(local_migrations)
                   EXCEPT ![FilePath(index)] = final, ![TmpPath(index)] = tmp]
    /\ dirExists \in BOOLEAN
    /\ (\E p \in Paths : fs[p].exists) => dirExists
    /\ fs0 = <<fs, dirExists>>
    /\ wpos = 0
    /\ fsOps = 0

NextWrite == WriteNext \/ Crash

SpecWrite == InitWrite /\ [][NextWrite]_vars

\* create called with every bounded local history, server tip and mode
InitCreate ==
    /\ LinIdle
    /\ FindIdle
    /\ pc = "read_all"
    /\ local_migrations \in LocalHistories
    /\ serverTip \in Tips
    /\ non_interactive \in BOOLEAN
    /\ srvOpen = FALSE
    /\ srvApplied = FALSE
    /\ nStart = 0
    /\ nAbort = 0
    /\ rounds = 0
    /\ db_migration = None
    /\ proposed = <<>>
    /\ descr = <<>>
    /\ cur = NoCur
    /\ executed = <<>>
    /\ parent = "initial"
    /\ exec = NotRun
    /\ abort = NotRun
    /\ result = NotRun
    /\ schema_dir = ExampleDir
    /\ text = <<>>
    /\ sourcemap = <<>>
    /\ fs = HistoryFiles(local_migrations)
    /\ dirExists = (local_migrations # <<>>)
    /\ fs0 = <<fs, dirExists>>
    /\ wpos = 0
    /\ fsOps = 0

NextCreate ==
    \/ ReadAll \/ GenStartMigration \/ StartMigration \/ TipLookup
    \/ CheckHistory \/ Describe \/ ForProposals \/ Apply \/ ParentLookup
    \/ WriteNext
    \/ AbortMigration

SpecCreate == InitCreate /\ [][NextCreate]_vars

\* create with the loop of run_non_interactive left without the model's
\* count of rounds; the task is polled until it returns
NextLoop == NextCreate \/ DescribeOn

FairCreate == InitCreate /\ [][NextLoop]_vars /\ WF_vars(NextLoop)

\* create on a server that another client migrates meanwhile
NextShared == NextCreate \/ TipMoves

SpecShared == InitCreate /\ [][NextShared]_vars

\* create run after create, nothing else touching the server or the directory
NextRuns == NextCreate \/ CreateAgain

SpecRuns == InitCreate /\ [][NextRuns]_vars

\* the start of create on every bounded schema directory: the entries have
\* different names
InitSchema ==
    /\ LinIdle
    /\ FindIdle
    /\ FsIdle
    /\ pc = "gen_start"
    /\ local_migrations = <<>>
    /\ serverTip = None
    /\ non_interactive = TRUE
    /\ srvOpen = FALSE
    /\ srvApplied = FALSE
    /\ nStart = 0
    /\ nAbort = 0
    /\ rounds = 0
    /\ db_migration = None
    /\ proposed = <<>>
    /\ descr = <<>>
    /\ cur = NoCur
    /\ executed = <<>>
    /\ parent = "initial"
    /\ exec = NotRun
    /\ abort = NotRun
    /\ result = NotRun
    /\ \E n \in 0..MaxEntries : \E dir \in [1..n -> DirEntries] :
          /\ \A i, j \in 1..n : dir[i].name = dir[j].name => i = j
          /\ schema_dir = dir
    /\ text = <<>>
    /\ sourcemap = <<>>

NextSchema == GenStartMigration \/ StartMigration

SpecSchema == InitSchema /\ [][NextSchema]_vars

\* find_by_prefix called with every prefix on every bounded server table
InitFind ==
    /\ LinIdle
    /\ CreateIdle
    /\ FsIdle
    /\ fpc = "query"
    /\ table \in {t \in SUBSET TableNames : Cardinality(t) <= MaxTable}
    /\ prefix \in Prefixes
    /\ reply = <<>>
    /\ all_similar = <<>>
    /\ found = NotRun

NextFind ==
    \/ (FindQuery /\ UNCHANGED <<linVars, srvVars, createVars, schemaVars, fsVars>>)
    \/ (FindReturn /\ UNCHANGED <<linVars, srvVars, createVars, schemaVars, fsVars>>)

SpecFind == InitFind /\ [][NextFind]_vars

(***************************************************************************)
(* Claims about linearize_db_migrations (SpecLin)                          *)
(***************************************************************************)
OutputNames == {name(output[i]) : i \in 1..Len(output)}

\* the place of the record named n in the output, 0 when it is not there
Pos(n) == IF n \in OutputNames
          THEN CHOOSE i \in 1..Len(output) : name(output[i]) = n
          ELSE 0

ParentSet(item) == {item.parent_names[j] : j \in 1..Len(item.parent_names)}

InputNames == {name(migrations[i]) : i \in 1..Len(migrations)}

RECURSIVE ReachFrom(_)
\* the names reached from the set S by parent-to-child links
ReachFrom(S) ==
    LET T == S \cup {name(migrations[i]) : i \in
                        {i \in 1..Len(migrations) :
                            ParentSet(migrations[i]) \cap S # {}}}
    IN IF T = S THEN S ELSE ReachFrom(T)

RootNames == {name(migrations[i]) : i \in
                 {i \in 1..Len(migrations) : migrations[i].parent_names = <<>>}}

Reachable == ReachFrom(RootNames)

C7_Example ==
    <<[name |-> "A", parent_names |-> <<>>],
      [name |-> "B", parent_names |-> <<"A">>],
      [name |-> "C", parent_names |-> <<"A">>],
      [name |-> "D", parent_names |-> <<"B", "C">>]>>

\* C7: for the input [A, B(A), C(A), D(B, C)] the output has A first and D
\* after both B and C.
C7_DAfterBothParents ==
    (lpc = "done" /\ migrations = C7_Example) =>
        /\ Pos("A") = 1
        /\ Pos("B") > 0 /\ Pos("C") > 0
        /\ Pos("D") > Pos("B")
        /\ Pos("D") > Pos("C")

\* C8: in the output every record with parents comes after at least one
\* record that is one of its parents, and the first record has no parents.
C8_AfterSomeParent ==
    lpc = "done" =>
        /\ \A i \in 1..Len(output) :
              output[i].parent_names # <<>> =>
                  \E j \in 1..(i - 1) : name(output[j]) \in ParentSet(output[i])
        /\ Len(output) > 0 => output[1].parent_names = <<>>

\* a record with two parents was emitted, one of its parents after it
C8_Witness ==
    /\ lpc = "done"
    /\ \E i \in 1..Len(output) :
          /\ Cardinality(ParentSet(output[i])) = 2
          /\ \E j \in (i + 1)..Len(output) : name(output[j]) \in ParentSet(output[i])
          /\ \E j \in 1..(i - 1) : name(output[j]) \in ParentSet(output[i])

\* C9: the keys of the output are exactly the records reachable from a root
\* by parent-to-child links, each once; the others are dropped, and a parent
\* name that matches no record stops nothing.
C9_ExactlyReachable ==
    lpc = "done" =>
        /\ OutputNames = Reachable
        /\ Cardinality(OutputNames) = Len(output)
        /\ \A i \in 1..Len(output) : \E j \in 1..Len(migrations) :
              output[i] = migrations[j]

\* a run that dropped a record, emitted one with a dangling parent, and
\* emitted one that lists the same parent twice (pushed twice)
C9_Witness ==
    /\ lpc = "done"
    /\ InputNames \ OutputNames # {}
    /\ \E i \in 1..Len(output) : ParentSet(output[i]) \ InputNames # {}
    /\ \E i \in 1..Len(output) :
          Len(output[i].parent_names) > Cardinality(ParentSet(output[i]))

RECURSIVE ParentEntries(_)
\* the number of parent names in the records of migs
ParentEntries(migs) ==
    IF migs = <<>> THEN 0
    ELSE Len(Head(migs).parent_names) + ParentEntries(Tail(migs))

\* C19: linearize_db_migrations terminates on every finite input, also with
\* cycles among records that are not roots, a parent listed twice and
\* records reached through several parents: the loop takes no more turns
\* than the input has roots and parent names, then the function returns its
\* output; it has no way to fail.
C19_Terminates ==
    /\ lpc \in {"loop", "done"}
    /\ pops <= Cardinality(RootNames) + ParentEntries(migrations)
    /\ lpc = "done" \/ ENABLED NextLin
    /\ lpc = "done" =>
          \A i \in 1..Len(output) : \E j \in 1..Len(migrations) :
              output[i] = migrations[j]

\* B lists its parent A twice and is also the child of its own child C
C19_Witness ==
    /\ lpc = "done"
    /\ migrations =
          <<[name |-> "A", parent_names |-> <<>>],
            [name |-> "B", parent_names |-> <<"A", "A", "C">>],
            [name |-> "C", parent_names |-> <<"B">>]>>
    /\ pops = 4

\* the decimal digit of n at the place of 10^k
Digit(n, k) == ToString((n \div (10 ^ k)) % 10)

\* <schema-dir>/migrations/NNNNN.edgeql for the sequence number n
NumberedFile(n) ==
    "migrations/" \o Digit(n, 4) \o Digit(n, 3) \o Digit(n, 2) \o Digit(n, 1)
        \o Digit(n, 0) \o ".edgeql"

\* the paths whose file differs from the one there when create began
ChangedPaths == {p \in DOMAIN fs : fs[p] # fs0[1][p]}

\* C20: a successful create with N migrations in the local history writes
\* exactly one file, the one numbered N+1 with the number zero-padded to five
\* digits under migrations/, and every migration file numbered N or less is
\* as it was.
C20_WritesOnlyNext ==
    (pc = "done" /\ result.ok) =>
        LET N == Len(local_migrations)
        IN /\ ChangedPaths = {NumberedFile(N + 1)}
           /\ fs[NumberedFile(N + 1)].exists
           /\ \A i \in 1..N :
                 /\ fs[NumberedFile(i)].exists
                 /\ fs[NumberedFile(i)] = fs0[1][NumberedFile(i)]

\* a history of one migration: 00002.edgeql is written next to 00001.edgeql
C20_Witness ==
    /\ pc = "done"
    /\ result.ok
    /\ Len(local_migrations) = 1
    /\ fs["migrations/00002.edgeql"].exists
    /\ fs["migrations/00001.edgeql"] = MigrationFile(1)
    /\ ChangedPaths = {"migrations/00002.edgeql"}

\* the name of the server's childless record, or the literal when none
TipOrInitial == IF serverTip = None THEN "initial" ELSE serverTip

\* run_non_interactive returned Ok: the file of this run is written
Written == pc \in {"returned", "done"} /\ exec.ok

\* C21: the parent of the written file, in its ONTO line and in the id, is the
\* name of the server's childless record as the query made after the describe
\* loop and before any write returns it, and the literal initial when the
\* server has no such record.
C21_ParentIsTipAtFinalize ==
    /\ [][pc = "parent" /\ pc' = "w_hash" => parent' = TipOrInitial]_vars
    /\ [][pc # "parent" => parent' = parent]_vars
    /\ [][pc # "parent" /\ pc' = "parent" => pc = "describe"]_vars
    /\ [](pc = "parent" => fs = fs0[1] /\ dirExists = fs0[2] /\ fsOps = 0)
    /\ [](Written =>
            /\ fs[NumberedFile(Len(local_migrations) + 1)].lines[2]
                  = "    ONTO " \o parent
            /\ fs[NumberedFile(Len(local_migrations) + 1)].lines[1]
                  = "CREATE MIGRATION " \o MakeId(parent, Statements(descr)))

\* validation saw no record on the server, the query after the loop finds m1
C21_Witness ==
    /\ Written
    /\ db_migration = None
    /\ serverTip = "m1"
    /\ fs["migrations/00001.edgeql"].lines[2] = "    ONTO m1"

(***************************************************************************)
(* Claims about _write_migration (SpecWrite)                               *)
(***************************************************************************)
NewFile == File(FileLines(parent, descr))

\* C6: at every step of the write, and after a failure or a kill at any
\* step, the final path is absent, holds the complete previous content or
\* holds the complete new content.
C6_FinalNeverPartial ==
    fs[FinalFile] \in {NoFile, fs0[1][FinalFile], NewFile}

\* killed with the temporary file half written and the old file in place
C6_Witness ==
    /\ pc = "crashed"
    /\ fs0[1][FinalFile] = OldFile
    /\ fs[FinalFile] = OldFile
    /\ fs[TmpPath(index)].exists
    /\ Len(fs[TmpPath(index)].lines) > 0
    /\ Len(fs[TmpPath(index)].lines) < Len(NewFile.lines)

\* C14: when the hasher fails on any confirmed statement the write fails and
\* the filesystem is as it was: no directory made, no temporary file
\* removed or created, the final path not touched.
C14_HasherFailureTouchesNothing ==
    ((\E i \in 1..Len(descr) : descr[i] = BadText) /\ pc # "w_hash") =>
        /\ pc \in {"returned", "crashed"}
        /\ pc = "returned" => exec = Err("hasher")
        /\ fs = fs0[1]
        /\ dirExists = fs0[2]
        /\ fsOps = 0

\* the second statement cannot be hashed; the directory is there with a
\* stale temporary file and no final file, and all of it is left so
C14_Witness ==
    /\ pc = "returned"
    /\ exec = Err("hasher")
    /\ descr = <<StmtText(1, 1), BadText>>
    /\ fs[FinalFile] = NoFile
    /\ fs[TmpPath(index)] = StaleTmp
    /\ dirExists

(***************************************************************************)
(* Claims about create and run_non_interactive (SpecCreate)                *)
(***************************************************************************)
RoutineSteps == {"describe", "for", "apply", "parent", "w_hash", "w_mkdir", "w_rmtmp",
                 "w_create", "w_write", "w_flush", "w_rename"}

\* the errors of the steps of create that come before the history test
EarlyErrors == {Err("read_all"), Err("gen_start_migration"), Err("start"),
                Err("tip_query")}

Mismatch == serverTip # LastKey(local_migrations)

FsUntouched == fs = fs0[1] /\ dirExists = fs0[2] /\ fsOps = 0

\* C1: when the server accepted START MIGRATION, create does not return
\* before it has sent ABORT MIGRATION, whatever the outcome.
C1_AbortBeforeReturn ==
    (pc = "done" /\ srvOpen) => nAbort >= 1

\* C2: once the non-interactive routine is entered, ABORT MIGRATION is sent
\* exactly once, after the routine has ended (well or not), and no DESCRIBE
\* and no statement is sent after it.
C2_AbortOnceAfterRoutine ==
    /\ [](/\ nAbort <= 1
          /\ pc \in RoutineSteps \cup {"returned"} => nAbort = 0
          /\ (pc = "done" /\ rounds > 0) => nAbort = 1)
    /\ [][nAbort >= 1 =>
             /\ rounds' = rounds
             /\ executed' = executed
             /\ nAbort' = nAbort]_vars

\* the routine failed on an execute and create went on to the abort
C2_Witness ==
    /\ pc = "done"
    /\ exec = Err("execute")
    /\ executed # <<>>
    /\ nAbort = 1

\* C3: START MIGRATION is sent only when the server's tip equals the last
\* local migration; when they differ it is never sent.
C3_ValidateBeforeStart ==
    nStart >= 1 => ~Mismatch

\* C4: when the server's tip differs from the last local migration, create
\* returns the validation error (unless an earlier step failed) and touches
\* no file; when they are equal the test passes.
C4_MismatchIsFatal ==
    /\ Mismatch =>
          /\ FsUntouched
          /\ pc \notin RoutineSteps \cup {"returned"}
          /\ pc = "done" => result \in EarlyErrors \cup {Err("validation")}
    /\ ~Mismatch =>
          /\ result # Err("validation")
          /\ pc = "done" =>
                \/ result \in EarlyErrors
                \/ rounds > 0
                \/ ~non_interactive /\ result = Err("not_implemented")

\* the server has no migration, the local history has one: create returned
\* the validation error
C4_Witness ==
    /\ pc = "done"
    /\ serverTip = None
    /\ local_migrations # <<>>
    /\ result = Err("validation")

\* C5: when the routine and ABORT MIGRATION both fail, create returns the
\* routine's error first and the abort's error with it.
C5_CombinedFailure ==
    (pc = "done" /\ nAbort = 1 /\ ~exec.ok /\ ~abort.ok) =>
        /\ ~result.ok
        /\ Head(result.errors) = Head(exec.errors)
        /\ \E i \in 1..Len(result.errors) : result.errors[i] = Head(abort.errors)

RECURSIVE HighBefore(_, _, _, _)
\* the statements of the proposals at or above the threshold that the `for`
\* loops reach from place <<i, j>> on, before place c
HighBefore(pr, i, j, c) ==
    IF i > Len(pr) \/ <<i, j>> = c THEN <<>>
    ELSE IF pr[i].confidence >= SAFE_CONFIDENCE /\ j <= Len(pr[i].statements)
         THEN <<pr[i].statements[j]>> \o HighBefore(pr, i, j + 1, c)
         ELSE HighBefore(pr, i + 1, 1, c)

Texts(sts) == [k \in 1..Len(sts) |-> sts[k].text]

InputError == Err("user_input_required")

\* C10: a statement that requires user input in a proposal at or above the
\* threshold fails the loop at once: the statements before it were executed,
\* it and the ones after it are not, no DESCRIBE follows and no file is
\* written; below the threshold such a statement fails nothing.
C10_FailsOnRequiredInput ==
    /\ [](/\ pc = "apply" =>
                \* no statement that requires input was passed over
                /\ \A k \in 1..Len(HighBefore(proposed, 1, 1, cur)) :
                      HighBefore(proposed, 1, 1, cur)[k].required_user_input = <<>>
                /\ executed = Texts(HighBefore(proposed, 1, 1, cur))
          /\ exec = InputError =>
                /\ pc \in {"returned", "done"}
                /\ proposed[cur[1]].confidence >= SAFE_CONFIDENCE
                /\ proposed[cur[1]].statements[cur[2]].required_user_input # <<>>
                /\ executed = Texts(HighBefore(proposed, 1, 1, cur))
                /\ FsUntouched)
    /\ [][/\ (pc = "apply"
              /\ proposed[cur[1]].statements[cur[2]].required_user_input # <<>>)
                 => (exec' = InputError /\ pc' = "returned")
          /\ exec = InputError =>
                (rounds' = rounds /\ executed' = executed /\ fs' = fs)]_vars

\* the first proposal is below the threshold and requires input, the second
\* is above it: its first statement was executed, its second requires input
C10_Witness ==
    /\ pc = "done"
    /\ exec = InputError
    /\ cur = <<2, 2>>
    /\ proposed[1].confidence < SAFE_CONFIDENCE
    /\ Len(proposed[1].statements) > 0
    /\ proposed[1].statements[1].required_user_input # <<>>
    /\ executed = <<StmtText(2, 1)>>

\* all the statements of the proposals at or above the threshold
AllHigh(pr) == Texts(HighBefore(pr, 1, 1, NoCur))

\* C11: in every describe round the statements executed are exactly those of
\* the proposals with confidence at or above 0.99999, in proposal order and
\* statement order; no statement of a proposal below it is executed, and a
\* round that executes nothing is followed by another DESCRIBE.
C11_ExecutesExactlyHigh ==
    /\ [](pc = "apply" =>
             /\ proposed[cur[1]].confidence >= SAFE_CONFIDENCE
             /\ Len(executed) < Len(AllHigh(proposed))
             /\ executed = SubSeq(AllHigh(proposed), 1, Len(executed))
             /\ proposed[cur[1]].statements[cur[2]].text
                   = AllHigh(proposed)[Len(executed) + 1])
    /\ [][/\ (pc = "for" /\ pc' = "describe") => AllHigh(proposed) = <<>>
          /\ (pc = "for" /\ AllHigh(proposed) = <<>>) =>
                (pc' = "describe" /\ executed' = <<>>)
          /\ (pc = "apply" /\ pc' = "describe") =>
                Append(executed, proposed[cur[1]].statements[cur[2]].text)
                   = AllHigh(proposed)
          /\ (pc = "apply" /\ pc' = "apply") =>
                executed' = Append(executed,
                                   proposed[cur[1]].statements[cur[2]].text)
          /\ (pc = "describe" /\ rounds < MaxRounds) =>
                rounds' = rounds + 1]_vars

\* second round: the first proposal is below the threshold and has
\* a statement, the second is exactly at it and its second statement is next
C11_Witness ==
    /\ pc = "apply"
    /\ rounds = 2
    /\ Len(proposed) = 2
    /\ proposed[1].confidence = SAFE_CONFIDENCE - 1
    /\ Len(proposed[1].statements) = 1
    /\ proposed[2].confidence = SAFE_CONFIDENCE
    /\ cur = <<2, 2>>
    /\ executed = <<StmtText(2, 1)>>

WriteSteps == {"w_hash", "w_mkdir", "w_rmtmp", "w_create", "w_write",
               "w_flush", "w_rename"}

\* the lines of a migration file between the "{" line and the "};" line
FileBody(f) == SubSeq(f.lines, 4, Len(f.lines) - 1)

\* the lines of the confirmed statements as a file holds them: indented by
\* two spaces, the last line of each statement closed by a semicolon
ConfirmedLines(confirmed) ==
    Flatten([i \in 1..Len(confirmed) |->
                [k \in 1..Len(confirmed[i]) |->
                    "  " \o confirmed[i][k]
                         \o (IF k = Len(confirmed[i]) THEN ";" ELSE "")]])

XStatement == <<"x {", "}">>

\* C12: the statements in the migration file are exactly the confirmed list
\* of the final describe round (the first one that proposes nothing), in the
\* same order, each once; the file is written only after such a round, and
\* what was executed but not confirmed is not in it.
C12_FileHoldsConfirmed ==
    /\ [](/\ fs[FinalFile].exists =>
                /\ Len(fs[FinalFile].lines) >= 4
                /\ fs[FinalFile].lines[3] = "{"
                /\ fs[FinalFile].lines[Len(fs[FinalFile].lines)] = "};"
                /\ FileBody(fs[FinalFile]) = ConfirmedLines(descr)
          /\ (pc \in WriteSteps \/ fsOps > 0) =>
                /\ rounds >= 1
                /\ proposed = <<>>
                /\ executed = <<>>)
    /\ [][/\ descr' # descr =>
                (pc = "describe" /\ pc' = "parent" /\ proposed' = <<>>)
          /\ (pc = "describe" /\ proposed' # <<>>) => pc' = "for"
          /\ pc \in WriteSteps => descr' = descr]_vars

\* a statement was executed in the first round, the second round confirmed
\* only another statement, and the file holds only that one
C12_Witness ==
    /\ pc = "done"
    /\ result = Ok
    /\ srvApplied
    /\ rounds = 2
    /\ descr = <<XStatement>>
    /\ fs[FinalFile].lines =
          <<"CREATE MIGRATION m1[initial|x {/};/]", "    ONTO initial", "{",
            "  x {", "  };", "};">>

LoopSteps == {"describe", "for", "apply"}

\* C13: the describe/apply loop ends after a bounded number of rounds for
\* every server behaviour: once entered, the loop is left at some time, also
\* when the server keeps proposing.
C13_LoopEnds ==
    (pc \in LoopSteps) ~> (pc \notin LoopSteps)

(***************************************************************************)
(* More claims about _write_migration (SpecWrite)                          *)
(***************************************************************************)
\* the content of a migration file as a function of the parent and of the
\* ordered confirmed statements
ContentOf(par, confirmed) ==
    <<"CREATE MIGRATION "
         \o MakeId(par, [i \in 1..Len(confirmed) |-> AddSemi(confirmed[i])]),
      "    ONTO " \o par,
      "{">>
    \o ConfirmedLines(confirmed)
    \o <<"};">>

\* C15: the migration id and the whole content of the written file are a
\* function of the parent and of the ordered confirmed statements only:
\* whatever the sequence number, the target path and the earlier content of
\* the final and the temporary path, a write that succeeds leaves that same
\* content.
C15_ContentFromParentAndStatements ==
    (pc = "returned" /\ exec.ok) =>
        fs[FilePath(Len(local_migrations) + 1)] = File(ContentOf(parent, descr))

\* a write with sequence number 2 over an old final file and a stale
\* temporary file: the content is the one a write with sequence number 1 on
\* empty paths leaves
C15_Witness ==
    /\ pc = "returned"
    /\ exec = Ok
    /\ Len(local_migrations) = 1
    /\ fs0[1]["migrations/00002.edgeql"] = OldFile
    /\ fs0[1]["migrations/.~00002.edgeql.tmp"] = StaleTmp
    /\ parent = "initial"
    /\ descr = <<XStatement>>
    /\ fs["migrations/00002.edgeql"].lines =
          <<"CREATE MIGRATION m1[initial|x {/};/]", "    ONTO initial", "{",
            "  x {", "  };", "};">>

(***************************************************************************)
(* Claims about read_schema_file and gen_start_migration (SpecSchema)      *)
(***************************************************************************)
RECURSIVE DepthAfter(_, _)
\* the braces left open by the first k tokens of data
DepthAfter(data, k) ==
    IF k = 0 THEN 0
    ELSE LET d == DepthAfter(data, k - 1)
         IN IF data[k] = "{" THEN d + 1
            ELSE IF data[k] = "}" /\ d > 0 THEN d - 1
            ELSE d

\* the places of the semicolons that end a statement
TopSemicolons(data) ==
    {k \in 1..Len(data) : data[k] = ";" /\ DepthAfter(data, k - 1) = 0}

\* what is left of data after its complete statements
Remainder(data) ==
    LET S == TopSemicolons(data)
        last == IF S = {} THEN 0 ELSE CHOOSE k \in S : \A j \in S : j <= k
    IN SubSeq(data, last + 1, Len(data))

Incomplete(data) ==
    \E k \in 1..Len(Remainder(data)) : Remainder(data)[k] \notin {" ", "\n"}

\* a regular file, not hidden, with the .esdl suffix
IsSchemaFile(item) ==
    /\ item.is_file
    /\ item.name[1] # "."
    /\ Len(item.name) >= 2
    /\ SubSeq(item.name, Len(item.name) - 1, Len(item.name)) = <<".", "esdl">>

SchemaFiles == {i \in 1..Len(schema_dir) : IsSchemaFile(schema_dir[i])}

\* the content as one string, its last line closed
Terminated(data) ==
    IF data = <<>> \/ data[Len(data)] = "\n" THEN JoinTokens(data)
    ELSE JoinTokens(data) \o "\n"

RECURSIVE LinesOf(_, _)
\* the lines of `text` from place k on that the source map gives to src,
\* as one string
LinesOf(src, k) ==
    IF k > Len(text) THEN ""
    ELSE (IF sourcemap[k].source = [kind |-> "File", path |-> src]
          THEN text[k] \o "\n" ELSE "")
         \o LinesOf(src, k + 1)

IoError == Err("gen_start_migration")

\* C16: the aggregation fails if and only if some selected schema file has,
\* after its complete statements, a remainder that is not white space only;
\* a file with an empty or white remainder is accepted with its content
\* unaltered; when the aggregation fails create sends nothing to the server.
C16_FailsIffIncomplete ==
    pc # "gen_start" =>
        LET bad == \E i \in SchemaFiles : Incomplete(schema_dir[i].data)
        IN /\ bad =>
                /\ pc = "done"
                /\ result \in {SemicolonError, IoError}
                /\ text = <<>>
                /\ nStart = 0 /\ nAbort = 0 /\ rounds = 0
           /\ ~bad => result # SemicolonError
           /\ (~bad /\ result # IoError) =>
                \A i \in SchemaFiles :
                    LinesOf(schema_dir[i].name, 1) = Terminated(schema_dir[i].data)

\* the first file ends in white space after its last statement and was
\* accepted; the second has its only semicolon inside braces
C16_Witness ==
    /\ pc = "done"
    /\ result = SemicolonError
    /\ nStart = 0
    /\ schema_dir =
          <<[name |-> <<"a", ".", "esdl">>, is_file |-> TRUE,
             data |-> <<"a", ";", "\n", "\n", "b", ";", " ", "\n">>],
            [name |-> <<"b", ".", "esdl">>, is_file |-> TRUE,
             data |-> <<"a", "{", "\n", "b", ";", "\n", "}">>]>>

RECURSIVE Unlines(_)
Unlines(ls) == IF ls = <<>> THEN "" ELSE Head(ls) \o "\n" \o Unlines(Tail(ls))

RECURSIVE ContentsFrom(_)
\* the contents of the schema files from entry i on, in directory order
ContentsFrom(i) ==
    IF i > Len(schema_dir) THEN ""
    ELSE (IF i \in SchemaFiles THEN Terminated(schema_dir[i].data) ELSE "")
         \o ContentsFrom(i + 1)

LineCount(data) ==
    Cardinality({k \in 1..Len(data) : data[k] = "\n"})
    + (IF data # <<>> /\ data[Len(data)] # "\n" THEN 1 ELSE 0)

RECURSIVE SumLineCounts(_)
SumLineCounts(i) ==
    IF i > Len(schema_dir) THEN 0
    ELSE (IF i \in SchemaFiles THEN LineCount(schema_dir[i].data) ELSE 0)
         + SumLineCounts(i + 1)

\* C17: the aggregated text is the prefix line, the content of every entry
\* that is a regular file, not hidden and named *.esdl, in directory order,
\* and the suffix line; it has the lines of the selected files plus two, and
\* the other entries give it no line.
C17_TextIsSelectedFiles ==
    (pc \notin {"gen_start", "done"} \/ text # <<>>) =>
        /\ Unlines(text) =
              "START MIGRATION TO {\n" \o ContentsFrom(1) \o "};\n"
        /\ Len(text) = SumLineCounts(1) + 2
        /\ Len(sourcemap) = Len(text)
        /\ \A k \in 1..Len(text) :
              \/ k = 1 /\ sourcemap[k].source.kind = "Prefix"
              \/ k = Len(text) /\ k > 1 /\ sourcemap[k].source.kind = "Suffix"
              \/ /\ 1 < k /\ k < Len(text)
                 /\ sourcemap[k].source.kind = "File"
                 /\ \E i \in SchemaFiles :
                       sourcemap[k].source.path = schema_dir[i].name

\* a hidden file with a statement, then a schema file of three lines: the
\* text sent with START MIGRATION holds the three lines only
C17_Witness ==
    /\ pc = "tip"
    /\ schema_dir =
          <<[name |-> <<".", "a", ".", "esdl">>, is_file |-> TRUE,
             data |-> <<"a", ";">>],
            [name |-> <<"a", ".", "esdl">>, is_file |-> TRUE,
             data |-> <<"a", ";", "\n", "\n", "b", ";", " ", "\n">>]>>
    /\ text = <<"START MIGRATION TO {", "a;", "", "b; ", "};">>

(***************************************************************************)
(* Claims about find_by_prefix (SpecFind)                                  *)
(***************************************************************************)
\* C18: find_by_prefix returns no record when the server reports no match,
\* the record when it reports exactly one, and an error when it reports more
\* than one; it never returns one of several.
C18_OneMatchOrError ==
    (fpc = "done" /\ found.errors # <<"query">>) =>
        /\ Len(reply) = 0 => (found.ok /\ found.value = <<>>)
        /\ Len(reply) = 1 => (found.ok /\ found.value = <<reply[1]>>)
        /\ Len(reply) > 1 => (~found.ok /\ found.value = <<>>)

\* the prefix m1 matches m1a and m1b, and not m2
C18_Witness ==
    /\ fpc = "done"
    /\ prefix = <<"m", "1">>
    /\ table = {<<"m", "1", "a">>, <<"m", "1", "b">>, <<"m", "2">>}
    /\ Len(reply) = 2
    /\ ~found.ok


\* the file this run of create is to write is at its final path
NewFileExists == fs[NumberedFile(Len(local_migrations) + 1)].exists

\* C22: after create returns, the new migration file is at its final path if
\* and only if create returned success; a failure of ABORT MIGRATION after the
\* write does not leave the file there with create reporting an error.
C22_FileIffSuccess ==
    pc = "done" => (NewFileExists <=> result.ok)


\* the numbers of the migration files in `files` that a run of create wrote:
\* the files before the first run hold the ids m1, m2, ... of the history
Produced(files) ==
    {i \in 1..MaxHistory :
        files[NumberedFile(i)].exists /\ files[NumberedFile(i)] # MigrationFile(i)}

\* the errors of create up to and including the test of the history
UpToValidation ==
    {"read_all", "gen_start_migration", "start", "tip_query", "validation"}

\* C23: create leaves the server's childless record as it is while a
\* successful run makes its new id the last of the local history; a run of
\* create that follows one that wrote a file gets no further than the test of
\* the history, fails there at the latest and writes nothing, so runs of
\* create with nothing applied in between write at most one migration file.
C23_AtMostOneUnapplied ==
    /\ [][serverTip' = serverTip]_vars
    /\ [](Cardinality(Produced(fs)) <= 1)
    /\ []((pc = "done" /\ result.ok) =>
            read_all(fs) = Append(local_migrations,
                                  MakeId(parent, Statements(descr))))
    /\ [](Produced(fs0[1]) # {} =>
            /\ fs = fs0[1]
            /\ pc \in {"read_all", "gen_start", "start", "tip", "check", "done"}
            /\ pc = "done" =>
                  /\ ~result.ok
                  /\ Head(result.errors) \in UpToValidation)

\* the run after the one that wrote 00002.edgeql onto m1 fails the test
C23_Witness ==
    /\ pc = "done"
    /\ result = Err("validation")
    /\ serverTip = "m1"
    /\ Len(local_migrations) = 2
    /\ local_migrations[1] = "m1"
    /\ Produced(fs0[1]) = {2}
    /\ fs = fs0[1]

=============================================================================
